---- MODULE Spec2Model ----
(***************************************************************************)
(* Model of src/main.py: of the dormant "Pro Social Media Content          *)
(* Generator" drafts, the LangGraph retry graph                            *)
(*   analyzer -> content_creator -> validator -> should_continue           *)
(*            -> retry_counter -> content_creator ...                      *)
(* (draft A: lines 280-537, draft B: lines 556-889) and the validator      *)
(* comprehensive_content_validator that decides the retries                *)
(* (specification Spec), of format_feedback_for_prompt applied to the      *)
(* validator's feedback (SpecFormat), and of the active Streamlit script,  *)
(* lines 1-269: password gate, session state, upload, platform selection   *)
(* and the Generate loop around generate_for_platform (SpecApp).           *)
(* SpecProgram runs either the active script or a draft.                   *)
(*                                                                         *)
(* Python strings are sequences of tokens.  A fixed phrase of the source   *)
(* is one token; a character produced by the model is one token.  The      *)
(* GraphState is a function whose DOMAIN is the set of keys written so     *)
(* far: a key that was never written is absent from the dict a node gets,  *)
(* which is why the source reads most keys with state.get(key, default).   *)
(***************************************************************************)
EXTENDS Integers, Sequences, FiniteSets, TLC

(***************************************************************************)
(* Bounds of the model.                                                    *)
(***************************************************************************)
\* max_retries is drawn from 0..MaxRetries (the drafts pass 2 and 3).
MaxRetries == 3
\* the user ticks platforms among the first NumPlatforms of PLATFORM_CONFIG
NumPlatforms == 2

(***************************************************************************)
(* Program constants of comprehensive_content_validator.                   *)
(***************************************************************************)
IG_CAPTION_MAX == 2200
IG_ALT_TEXT_MAX == 100
IG_HASHTAGS_MIN == 15
IG_HASHTAGS_MAX == 30
PIN_TITLE_MAX == 100
PIN_DESCRIPTION_MAX == 500
PIN_KEYWORDS_MIN == 15
PIN_KEYWORDS_MAX == 20
\* the slice [:3] of the offending items that are reported
REPORTED_ITEMS == 3
\* the max-length the schema and the prompt declare for Pinterest alt_text
PIN_ALT_TEXT_DECLARED_MAX == 500

(***************************************************************************)
(* Strings.                                                                *)
(***************************************************************************)
\* sub in s, for a one-token sub
Contains(s, tok) == \E i \in 1..Len(s) : s[i] = tok

\* h.startswith('#')
startswith_hash(h) == Len(h) >= 1 /\ h[1] = "#"

\* lst[:n]
Slice(lst, n) == IF Len(lst) <= n THEN lst ELSE SubSeq(lst, 1, n)

\* sep.join(parts)
RECURSIVE JoinFrom(_, _, _)
JoinFrom(sep, parts, i) ==
    IF i > Len(parts) THEN <<>>
    ELSE (IF i > 1 THEN sep ELSE <<>>) \o parts[i] \o JoinFrom(sep, parts, i + 1)

Join(sep, parts) == JoinFrom(sep, parts, 1)

\* s[i:] starts with sub
StartsAt(s, sub, i) ==
    i + Len(sub) - 1 <= Len(s) /\ SubSeq(s, i, i + Len(sub) - 1) = sub

\* s.replace(sub, "")
RECURSIVE RemoveFrom(_, _, _)
RemoveFrom(s, sub, i) ==
    IF i > Len(s) THEN <<>>
    ELSE IF StartsAt(s, sub, i) THEN RemoveFrom(s, sub, i + Len(sub))
    ELSE <<s[i]>> \o RemoveFrom(s, sub, i + 1)

Remove(s, sub) == RemoveFrom(s, sub, 1)

\* s.split(sep): the pieces between the occurrences of sep, [""] for ""
RECURSIVE SplitFrom(_, _, _, _)
SplitFrom(s, sep, i, piece) ==
    IF i > Len(s) THEN << piece >>
    ELSE IF StartsAt(s, sep, i) THEN << piece >> \o SplitFrom(s, sep, i + Len(sep), <<>>)
    ELSE SplitFrom(s, sep, i + 1, Append(piece, s[i]))

Split(s, sep) == SplitFrom(s, sep, 1, <<>>)

\* s.strip(): the whitespace characters are tokens of their own; no fixed phrase
\* at either end of a stripped string starts or ends with whitespace
IsSpace(tok) == tok \in {" ", "\n", "\t"}

RECURSIVE lstrip(_)
lstrip(s) == IF s # <<>> /\ IsSpace(Head(s)) THEN lstrip(Tail(s)) ELSE s

RECURSIVE rstrip(_)
rstrip(s) ==
    IF s # <<>> /\ IsSpace(s[Len(s)]) THEN rstrip(SubSeq(s, 1, Len(s) - 1)) ELSE s

strip(s) == rstrip(lstrip(s))

\* faulty variant: the characters of the item copied as they are
PyStrRepr_raw(s) == <<"'">> \o s \o <<"'">>

\* repr(s) of a str without quotes in it: 'text', a newline written as \n
PyStrRepr(s) ==
    <<"'">> \o [i \in 1..Len(s) |-> IF s[i] = "\n" THEN "\\n" ELSE s[i]] \o <<"'">>

\* f"{lst}" of a list of str: ['a', 'b']
PyListRepr(lst) ==
    <<"[">> \o Join(<<", ">>, [i \in 1..Len(lst) |-> PyStrRepr(lst[i])]) \o <<"]">>

(***************************************************************************)
(* comprehensive_content_validator (draft A 344-361, draft B 684-701).     *)
(* The checks run in source order inside one try block: acc.err is the     *)
(* key of the KeyError that ended the block, NoKeyError while none was     *)
(* raised.                                                                 *)
(***************************************************************************)
NoKeyError == "<no KeyError>"

VALIDATION_PASSED == <<"Validation ", "Passed">>
FAILED_HEADER == <<"Validation ", "Failed", ". You MUST fix these issues:">>
NO_CONTENT_FEEDBACK == <<"Validation ", "Failed", ": No content was generated.">>
ISSUE_SEP == <<"\n", "-", " ">>

\* faulty variant: the issues of a check put in front of the earlier ones
Check_prepending(acc, d, key, found) ==
    IF acc.err # NoKeyError THEN acc
    ELSE IF key \notin DOMAIN d THEN [acc EXCEPT !.err = key]
    ELSE [acc EXCEPT !.issues = found \o @]

\* d[key] inside the try block, followed by the checks that use the value
Check(acc, d, key, found) ==
    IF acc.err # NoKeyError THEN acc
    ELSE IF key \notin DOMAIN d THEN [acc EXCEPT !.err = key]
    ELSE [acc EXCEPT !.issues = @ \o found]

\* faulty variant: the length test written with >= instead of >
ExceedsIssue_inclusive(text, max, msg) == IF Len(text) >= max THEN <<msg>> ELSE <<>>

ExceedsIssue(text, max, msg) == IF Len(text) > max THEN <<msg>> ELSE <<>>

CountIssue(lst, min, max, head, tail) ==
    IF ~(min <= Len(lst) /\ Len(lst) <= max)
    THEN << <<head, ToString(Len(lst)), tail>> >>
    ELSE <<>>

MissingHashIssue(lst) ==
    LET missing == SelectSeq(lst, LAMBDA h : ~startswith_hash(h))
    IN  IF missing # <<>>
        THEN << <<"Instagram Hashtags: Missing '#' on: ">>
                 \o PyListRepr(Slice(missing, REPORTED_ITEMS)) >>
        ELSE <<>>

HasHashIssue(lst) ==
    LET has_hash == SelectSeq(lst, LAMBDA k : startswith_hash(k))
    IN  IF has_hash # <<>>
        THEN << <<"Pinterest Keywords: Should not have '#': ">>
                 \o PyListRepr(Slice(has_hash, REPORTED_ITEMS)) >>
        ELSE <<>>

MissingFieldIssue(key) ==
    <<"A required field is missing from the AI's response: ">> \o PyStrRepr(<<key>>)

\* the body of the try block and its except clause: the list `issues`
validator_issues(content) ==
    LET ig  == content["instagram"]
        pin == content["pinterest"]
        s0 == [issues |-> <<>>, err |-> NoKeyError]
        s1 == Check(s0, content, "instagram", <<>>)
        s2 == Check(s1, ig, "caption",
                    ExceedsIssue(ig["caption"], IG_CAPTION_MAX,
                                 <<"Instagram Caption: Exceeds 2,200 characters.">>))
        s3 == Check(s2, ig, "alt_text",
                    ExceedsIssue(ig["alt_text"], IG_ALT_TEXT_MAX,
                                 <<"Instagram Alt Text: Exceeds 100 characters.">>))
        s4 == Check(s3, ig, "hashtags",
                    CountIssue(ig["hashtags"], IG_HASHTAGS_MIN, IG_HASHTAGS_MAX,
                               "Instagram Hashtags: Incorrect count (",
                               "). Must be 15-30.")
                    \o MissingHashIssue(ig["hashtags"]))
        s5 == Check(s4, content, "pinterest", <<>>)
        s6 == Check(s5, pin, "title",
                    ExceedsIssue(pin["title"], PIN_TITLE_MAX,
                                 <<"Pinterest Title: Exceeds 100 characters.">>))
        s7 == Check(s6, pin, "description",
                    ExceedsIssue(pin["description"], PIN_DESCRIPTION_MAX,
                                 <<"Pinterest Description: Exceeds 500 characters.">>))
        s8 == Check(s7, pin, "keywords",
                    CountIssue(pin["keywords"], PIN_KEYWORDS_MIN, PIN_KEYWORDS_MAX,
                               "Pinterest Keywords: Incorrect count (",
                               "). Must be 15-20.")
                    \o HasHashIssue(pin["keywords"]))
    IN  IF s8.err # NoKeyError
        THEN s8.issues \o << MissingFieldIssue(s8.err) >>
        ELSE s8.issues

\* the return statement: the header and the issues joined by "\n- "
comprehensive_content_validator(content) ==
    LET issues == validator_issues(content)
    IN  IF issues # <<>>
        THEN Join(ISSUE_SEP, <<FAILED_HEADER>> \o issues)
        ELSE VALIDATION_PASSED

(***************************************************************************)
(* format_feedback_for_prompt (draft B 650-662).                           *)
(***************************************************************************)
FEEDBACK_BLOCK_OPEN ==
    <<"<PREVIOUS_ATTEMPT_FEEDBACK>", "\n",
      "You MUST fix the following errors from your last attempt:", "\n">>
FEEDBACK_BLOCK_CLOSE == <<"\n", "</PREVIOUS_ATTEMPT_FEEDBACK>">>

\* f"{i+1}. {issue}"
numbered(i, issue) == <<ToString(i), ".", " ">> \o issue

\* faulty variant: the empty pieces kept (no `if issue.strip()`)
valid_issues_unfiltered(feedback) ==
    LET issues == Split(strip(Remove(feedback, FAILED_HEADER)), ISSUE_SEP)
    IN  [i \in 1..Len(issues) |-> strip(issues[i])]

\* the list valid_issues (lines 654-655)
valid_issues(feedback) ==
    LET issues == Split(strip(Remove(feedback, FAILED_HEADER)), ISSUE_SEP)
    IN  SelectSeq([i \in 1..Len(issues) |-> strip(issues[i])],
                  LAMBDA issue : issue # <<>>)

format_feedback_for_prompt(feedback) ==
    IF ~Contains(feedback, "Failed") THEN <<>>
    ELSE LET valid == valid_issues(feedback)
         IN  IF valid = <<>> THEN <<>>
             ELSE FEEDBACK_BLOCK_OPEN
                  \o Join(<<"\n">>, [i \in 1..Len(valid) |-> numbered(i, valid[i])])
                  \o FEEDBACK_BLOCK_CLOSE

(***************************************************************************)
(* Outputs of the external model.  The generation call returns whatever    *)
(* JSON object the model wrote: Candidates are the contents the call may   *)
(* return, built from the lengths of their fields.                         *)
(***************************************************************************)
Text(n) == [i \in 1..n |-> "a"]

\* n hashtags, the first `bad` of them without the leading '#'
Hashtags(n, bad) ==
    [i \in 1..n |-> IF i <= bad THEN <<"t", ToString(i)>> ELSE <<"#", "t", ToString(i)>>]

\* n keywords, the first `hashed` of them with a leading '#'
Keywords(n, hashed) ==
    [i \in 1..n |-> IF i <= hashed THEN <<"#", "k", ToString(i)>> ELSE <<"k", ToString(i)>>]

Restrict(f, S) == [k \in S |-> f[k]]

IgFields == {"caption", "hashtags", "alt_text"}
PinFields == {"title", "description", "keywords", "alt_text"}
Platforms == {"instagram", "pinterest"}

\* the items of lst, the first one with a line break and "- " after its first
\* character when brk holds
WithLineBreak(lst, brk) ==
    IF brk /\ lst # <<>>
    THEN [lst EXCEPT ![1] = <<lst[1][1], "\n", "-", " ">> \o Tail(lst[1])]
    ELSE lst

MkContent(p) ==
    LET ig  == [caption |-> Text(p.cap),
                hashtags |-> WithLineBreak(Hashtags(p.tags, p.bad), "hashtags" \in p.brk),
                alt_text |-> Text(p.alt)]
        pin == [title |-> Text(p.title), description |-> Text(p.desc),
                keywords |-> WithLineBreak(Keywords(p.kws, p.hashed), "keywords" \in p.brk),
                alt_text |-> Text(p.palt)]
    IN  [plat \in Platforms \ p.dropPlat |->
            IF plat = "instagram" THEN Restrict(ig, IgFields \ p.dropIg)
                                  ELSE Restrict(pin, PinFields \ p.dropPin)]

\* a content that satisfies every declared constraint: short texts, 15 items
Base ==
    [cap |-> 2, alt |-> 2, tags |-> IG_HASHTAGS_MIN, bad |-> 0,
     title |-> 2, desc |-> 2, kws |-> PIN_KEYWORDS_MIN,
     hashed |-> 0, palt |-> 2, brk |-> {},
     dropPlat |-> {}, dropIg |-> {}, dropPin |-> {}]

\* contents in which every checked constraint holds, the boundaries included
ValidParams ==
    { [Base EXCEPT !.cap = v[1], !.tags = v[2], !.kws = v[3],
                   !.alt = v[4][1], !.title = v[4][2], !.desc = v[4][3]] :
        v \in {0, IG_CAPTION_MAX}
              \X {IG_HASHTAGS_MIN, IG_HASHTAGS_MAX}
              \X {PIN_KEYWORDS_MIN, PIN_KEYWORDS_MAX}
              \X { <<0, 0, 0>>,
                    <<IG_ALT_TEXT_MAX, PIN_TITLE_MAX, PIN_DESCRIPTION_MAX>>,
                    <<IG_ALT_TEXT_MAX, 0, PIN_DESCRIPTION_MAX>> } }

\* contents that break one constraint each
SingleViolationParams ==
    { [Base EXCEPT !.cap = IG_CAPTION_MAX + 1],
      [Base EXCEPT !.alt = IG_ALT_TEXT_MAX + 1],
      [Base EXCEPT !.tags = IG_HASHTAGS_MIN - 1],
      [Base EXCEPT !.tags = IG_HASHTAGS_MAX + 1],
      [Base EXCEPT !.bad = 1],
      [Base EXCEPT !.bad = REPORTED_ITEMS + 1],
      [Base EXCEPT !.title = PIN_TITLE_MAX + 1],
      [Base EXCEPT !.desc = PIN_DESCRIPTION_MAX + 1],
      [Base EXCEPT !.kws = PIN_KEYWORDS_MIN - 1],
      [Base EXCEPT !.kws = PIN_KEYWORDS_MAX + 1],
      [Base EXCEPT !.hashed = 1],
      [Base EXCEPT !.hashed = REPORTED_ITEMS + 1],
      [Base EXCEPT !.palt = PIN_ALT_TEXT_DECLARED_MAX + 1] }

\* contents that break several constraints at once
MultiViolationParams ==
    { [Base EXCEPT !.tags = 3, !.bad = 2],
      [Base EXCEPT !.kws = 3, !.hashed = 2],
      [Base EXCEPT !.tags = 3, !.bad = 2, !.kws = 3, !.hashed = 2],
      [Base EXCEPT !.cap = IG_CAPTION_MAX + 1, !.title = PIN_TITLE_MAX + 1],
      [Base EXCEPT !.alt = IG_ALT_TEXT_MAX + 1, !.tags = IG_HASHTAGS_MIN - 1],
      [Base EXCEPT !.hashed = 1, !.brk = {"keywords"}],
      [Base EXCEPT !.hashed = 2, !.brk = {"keywords"}, !.title = PIN_TITLE_MAX + 1],
      [Base EXCEPT !.bad = 1, !.brk = {"hashtags"}, !.kws = 3],
      [Base EXCEPT !.cap = IG_CAPTION_MAX + 1, !.alt = IG_ALT_TEXT_MAX + 1,
                   !.tags = IG_HASHTAGS_MAX + 1, !.bad = 2,
                   !.title = PIN_TITLE_MAX + 1, !.desc = PIN_DESCRIPTION_MAX + 1,
                   !.kws = PIN_KEYWORDS_MAX + 1, !.hashed = 2] }

\* contents with a key missing, alone and beside violations of other fields
MissingFieldParams ==
    { [Base EXCEPT !.dropPlat = {"instagram"}],
      [Base EXCEPT !.dropPlat = {"pinterest"}],
      [Base EXCEPT !.dropPlat = Platforms],
      [Base EXCEPT !.dropPlat = {"instagram"}, !.title = PIN_TITLE_MAX + 1] }
    \cup { [Base EXCEPT !.dropIg = {f}] : f \in IgFields }
    \cup { [Base EXCEPT !.dropPin = {f}] : f \in PinFields }
    \cup { [Base EXCEPT !.dropIg = {f}, !.title = PIN_TITLE_MAX + 1, !.hashed = 1] :
             f \in IgFields }
    \cup { [Base EXCEPT !.dropIg = {"alt_text"}, !.tags = 3, !.bad = 2],
           [Base EXCEPT !.dropIg = {"caption"}, !.alt = IG_ALT_TEXT_MAX + 1],
           [Base EXCEPT !.dropPin = {"title"}, !.desc = PIN_DESCRIPTION_MAX + 1,
                        !.kws = 3],
           [Base EXCEPT !.dropPin = {"description"}, !.cap = IG_CAPTION_MAX + 1,
                        !.kws = 3, !.hashed = 1],
           [Base EXCEPT !.dropPin = {"keywords"}, !.title = PIN_TITLE_MAX + 1] }

CandidateParams ==
    ValidParams \cup SingleViolationParams \cup MultiViolationParams
    \cup MissingFieldParams

Candidates == { MkContent(p) : p \in CandidateParams }

(***************************************************************************)
(* The graph: GraphState, the four nodes, should_continue and the UI code  *)
(* around app.invoke.                                                      *)
(***************************************************************************)
VARIABLES
    draft,          \* "A" (lines 280-537) or "B" (lines 556-889)
    state,          \* the GraphState: key |-> value, for the keys written so far
    pc,             \* the node to run next, "END", or "crashed" (app.invoke raised)
    ui,             \* what the Streamlit handler did after app.invoke
    genCalls,       \* model calls made by create_social_content_node
    lastGen,        \* how the last of them ended: "none" yet, "ok" or "failed"
    lastContent,    \* the social_content the last successful one returned
    attemptPrompt,  \* what create_social_content_node built the prompt of the
                    \* attempt under way from (the feedback it read), until the
                    \* retry counter starts the next attempt
    creatorRuns,    \* executions of create_social_content_node
    validatorRuns,  \* executions of validate_content_node
    validatedRuns,  \* of which called comprehensive_content_validator
    notices         \* st.warning / st.success emitted by should_continue, in order

graphVars == <<draft, state, pc, ui, genCalls, lastGen, lastContent, attemptPrompt,
               creatorRuns, validatorRuns, validatedRuns, notices>>

\* format_feedback_for_prompt applied on its own: where the call stands, its
\* argument and its result
VARIABLES fmt

fmtVars == <<fmt>>

\* the active Streamlit script (lines 1-269)
VARIABLES
    env,            \* os.getenv: APP_PASSWORD and GOOGLE_API_KEY
    session,        \* st.session_state: key |-> value, for the keys written so far
    widgets,        \* the widget values the browser holds between script runs
    run,            \* the script run under way or just ended: how far it got,
                    \* what it rendered, the generate_for_platform calls it made
    generated_from  \* for each entry of generated_content, the image_base64 that
                    \* was passed to the generate_for_platform call it came from

appVars == <<env, session, widgets, run, generated_from>>

vars == <<graphVars, fmtVars, appVars>>

\* no call of format_feedback_for_prompt on its own is under way
FMT_IDLE == [stage |-> "idle"]

\* Python's None, as os.getenv and the session defaults give it
None == "None"

\* a script run that did nothing yet
NEW_RUN ==
    [phase |-> "running", trigger |-> "none", gate |-> "not reached",
     initialised |-> FALSE, upload_processed |-> FALSE, rendered |-> "nothing",
     can_generate |-> FALSE, login_error |-> FALSE, todo |-> <<>>, calls |-> <<>>,
     results_shown |-> FALSE, tabs |-> <<>>, exception |-> "none",
     had |-> {}, unfinished |-> <<>>]

\* the file uploader holds no file
NO_FILE == [name |-> None, image |-> None]

NO_WIDGETS == [password |-> "", uploaded_file |-> NO_FILE, checked |-> {}]

\* the Streamlit script is not the program being run
AppIdle ==
    /\ env = [APP_PASSWORD |-> None, GOOGLE_API_KEY |-> None]
    /\ session = <<>>
    /\ widgets = NO_WIDGETS
    /\ run = [NEW_RUN EXCEPT !.phase = "not running"]
    /\ generated_from = <<>>

Drafts == {"A", "B"}

\* no prompt was built yet for the attempt
NO_PROMPT == [built |-> FALSE, attempt |-> 0, feedback |-> <<>>]

\* the handler while app.invoke runs, and after its `except Exception`
INVOKING == [shown |-> "nothing", content |-> FALSE, error_history |-> FALSE]
CRITICAL_ERROR ==
    [shown |-> "critical application error", content |-> FALSE, error_history |-> FALSE]

\* state.get(key, default)
Get(st, key, default) == IF key \in DOMAIN st THEN st[key] ELSE default

\* the update a node returns, written over the state (every key is a plain channel)
Update(st, upd) == upd @@ st

\* truthiness of state.get("error_history")
HasErrors(st) == Get(st, "error_history", <<>>) # <<>>

\* the dict handed to app.invoke (A: line 469, B: line 824)
inputs(d, max_retries) ==
    IF d = "A"
    THEN [image_base64 |-> "img", max_retries |-> max_retries]
    ELSE [image_base64 |-> "img", max_retries |-> max_retries, retry_count |-> 0]

Init ==
    /\ draft \in Drafts
    /\ \E m \in 0..MaxRetries : state = inputs(draft, m)
    /\ pc = "analyzer"
    /\ ui = INVOKING
    /\ genCalls = 0
    /\ lastGen = "none"
    /\ lastContent = <<>>
    /\ attemptPrompt = NO_PROMPT
    /\ creatorRuns = 0
    /\ validatorRuns = 0
    /\ validatedRuns = 0
    /\ notices = <<>>
    /\ fmt = FMT_IDLE
    /\ AppIdle

\* what analyze_image_node returns (A: 371-375, B: 710-714)
analyze_image_result(d, ok) ==
    IF ok
    THEN IF d = "A" THEN [analysis |-> "analysis", retry_count |-> 0]
                    ELSE [analysis |-> "analysis", retry_count |-> 0,
                          error_history |-> <<>>]
    ELSE [error_history |-> << "Image Analysis Failed" >>]

\* node "analyzer"; its only edge goes to content_creator (A: 442, B: 796)
analyze_image_node ==
    /\ pc = "analyzer"
    /\ \E ok \in BOOLEAN : state' = Update(state, analyze_image_result(draft, ok))
    /\ pc' = "content_creator"
    /\ UNCHANGED <<draft, ui, genCalls, lastGen, lastContent, creatorRuns,
                   validatorRuns, validatedRuns, notices>>
    /\ UNCHANGED <<attemptPrompt, fmtVars, appVars>>

\* faulty variant: '#' put in front of every hashtag, whatever it starts with
fix_common_errors_prefixing_all(content) ==
    IF DOMAIN content # {} /\ "instagram" \in DOMAIN content
       /\ "hashtags" \in DOMAIN content["instagram"]
    THEN LET hashtags == content["instagram"]["hashtags"]
             fixed_hashtags == [i \in 1..Len(hashtags) |-> <<"#">> \o hashtags[i]]
         IN  [content EXCEPT !["instagram"]["hashtags"] = fixed_hashtags]
    ELSE content

\* fix_common_errors (B: 664-671)
fix_common_errors(content) ==
    IF DOMAIN content # {} /\ "instagram" \in DOMAIN content
       /\ "hashtags" \in DOMAIN content["instagram"]
    THEN LET hashtags == content["instagram"]["hashtags"]
             fixed_hashtags ==
                 [i \in 1..Len(hashtags) |->
                     IF startswith_hash(hashtags[i]) THEN hashtags[i]
                     ELSE <<"#">> \o hashtags[i]]
         IN  [content EXCEPT !["instagram"]["hashtags"] = fixed_hashtags]
    ELSE content

\* what create_social_content_node returns when the model call and the parse
\* succeed (A: 405-406, B: 757-759)
content_created(d, content) ==
    IF d = "A" THEN [social_content |-> content]
               ELSE [social_content |-> fix_common_errors(content)]

\* faulty variant: the failing node also resets social_content
content_failed_clearing(d, st) ==
    [error_history |-> << "Content Generation Failed" >>, social_content |-> <<>>]

\* what it returns when the call or the parse raises (A: 407-408, B: 760-762)
content_failed(d, st) ==
    IF d = "A" THEN [error_history |-> << "Content Generation Failed" >>]
               ELSE [error_history |->
                        Get(st, "error_history", <<>>) \o << "Content Generation Failed" >>]

\* the {...} expression of draft A's prompt (line 394): the feedback between the
\* two tags when it holds "Failed"
feedback_between_tags(feedback) ==
    IF Contains(feedback, "Failed")
    THEN <<"<PREVIOUS_ATTEMPT_FEEDBACK>">> \o feedback \o <<"</PREVIOUS_ATTEMPT_FEEDBACK>">>
    ELSE <<>>

\* the part of the prompt that depends on the feedback (A: line 394, B: lines
\* 721 and 741)
prompt_feedback_block(d, feedback) ==
    IF d = "A" THEN feedback_between_tags(feedback)
               ELSE format_feedback_for_prompt(feedback)

\* what create_social_content_node builds its prompt from (A: 378-381, B:
\* 717-720): the attempt number and the feedback it reads from the state
prompt(st) ==
    [built |-> TRUE,
     attempt |-> Get(st, "retry_count", 0),
     feedback |-> Get(st, "validation_feedback", <<>>)]

\* node "content_creator"; its only edge goes to validator (A: 443, B: 797).
\* state['analysis'] is read before the try block: with the key absent the
\* KeyError leaves the node and app.invoke.  The model call returns one of
\* `outputs` or raises.
content_creator(outputs) ==
    /\ pc = "content_creator"
    /\ creatorRuns' = creatorRuns + 1
    /\ IF "analysis" \notin DOMAIN state
       THEN /\ pc' = "crashed"
            /\ UNCHANGED <<state, genCalls, lastGen, lastContent, attemptPrompt>>
       ELSE /\ attemptPrompt' = prompt(state)
            /\ genCalls' = genCalls + 1
            /\ \/ \E content \in outputs :
                     /\ state' = Update(state, content_created(draft, content))
                     /\ lastGen' = "ok"
                     /\ lastContent' = content_created(draft, content).social_content
               \/ /\ state' = Update(state, content_failed(draft, state))
                  /\ lastGen' = "failed"
                  /\ lastContent' = <<>>
            /\ pc' = "validator"
    /\ UNCHANGED <<draft, ui, validatorRuns, validatedRuns, notices>>
    /\ UNCHANGED <<fmtVars, appVars>>

\* the model may answer with any of the Candidates
create_social_content_node == content_creator(Candidates)

\* `not content` of validate_content_node
NoContent(st) == "social_content" \notin DOMAIN st \/ DOMAIN st["social_content"] = {}

\* faulty variant: a feedback already in the state is kept
validate_content_result_first_kept(st) ==
    IF "validation_feedback" \in DOMAIN st
    THEN [validation_feedback |-> st["validation_feedback"]]
    ELSE IF NoContent(st)
    THEN [validation_feedback |-> NO_CONTENT_FEEDBACK]
    ELSE [validation_feedback |-> comprehensive_content_validator(st["social_content"])]

\* what validate_content_node returns (A: 410-417, B: 764-771)
validate_content_result(st) ==
    IF NoContent(st)
    THEN [validation_feedback |-> NO_CONTENT_FEEDBACK]
    ELSE [validation_feedback |-> comprehensive_content_validator(st["social_content"])]

\* faulty variant: the budget test written with > instead of >=
should_continue_off_by_one(st) ==
    IF HasErrors(st) THEN [route |-> "end", notice |-> <<>>]
    ELSE IF Contains(Get(st, "validation_feedback", <<>>), "Failed")
         THEN IF st["retry_count"] > st["max_retries"]
              THEN [route |-> "end", notice |-> << "Max retries reached" >>]
              ELSE [route |-> "retry", notice |-> <<>>]
         ELSE [route |-> "end", notice |-> << "validated successfully" >>]

\* faulty variant: the error_history test left out
should_continue_ignoring_errors(st) ==
    IF Contains(Get(st, "validation_feedback", <<>>), "Failed")
    THEN IF st["retry_count"] >= st["max_retries"]
         THEN [route |-> "end", notice |-> << "Max retries reached" >>]
         ELSE [route |-> "retry", notice |-> <<>>]
    ELSE [route |-> "end", notice |-> << "validated successfully" >>]

\* faulty variant: the feedback test inverted ("Passed" in feedback)
should_continue_inverted(st) ==
    IF HasErrors(st) THEN [route |-> "end", notice |-> <<>>]
    ELSE IF Contains(Get(st, "validation_feedback", <<>>), "Passed")
         THEN IF st["retry_count"] >= st["max_retries"]
              THEN [route |-> "end", notice |-> << "Max retries reached" >>]
              ELSE [route |-> "retry", notice |-> <<>>]
         ELSE [route |-> "end", notice |-> << "validated successfully" >>]

\* faulty variant: the warning shown before the budget test, on every failed validation
should_continue_warning_misplaced(st) ==
    IF HasErrors(st) THEN [route |-> "end", notice |-> <<>>]
    ELSE IF Contains(Get(st, "validation_feedback", <<>>), "Failed")
         THEN IF st["retry_count"] >= st["max_retries"]
              THEN [route |-> "end", notice |-> << "Max retries reached" >>]
              ELSE [route |-> "retry", notice |-> << "Max retries reached" >>]
         ELSE [route |-> "end", notice |-> << "validated successfully" >>]

\* should_continue (A: 420-431, B: 773-784): the route, and the notice it shows
should_continue(st) ==
    IF HasErrors(st) THEN [route |-> "end", notice |-> <<>>]
    ELSE IF Contains(Get(st, "validation_feedback", <<>>), "Failed")
         THEN IF st["retry_count"] >= st["max_retries"]
              THEN [route |-> "end", notice |-> << "Max retries reached" >>]
              ELSE [route |-> "retry", notice |-> <<>>]
         ELSE [route |-> "end", notice |-> << "validated successfully" >>]

\* the conditional edges of validator (A: 444, B: 798)
route_target(route) == IF route = "retry" THEN "retry_counter" ELSE "END"

\* node "validator" and the conditional edge that follows it
validate_content_node ==
    /\ pc = "validator"
    /\ validatorRuns' = validatorRuns + 1
    /\ validatedRuns' = IF NoContent(state) THEN validatedRuns ELSE validatedRuns + 1
    /\ state' = Update(state, validate_content_result(state))
    /\ LET decision == should_continue(state')
       IN  /\ notices' = notices \o decision.notice
           /\ pc' = route_target(decision.route)
    /\ UNCHANGED <<draft, ui, genCalls, lastGen, lastContent, creatorRuns>>
    /\ UNCHANGED <<attemptPrompt, fmtVars, appVars>>

\* faulty variant: the + 1 left out
increment_retry_stuck(st) == [retry_count |-> st["retry_count"]]

\* what increment_retry_node returns (A: 433-434, B: 786-787)
increment_retry_result(st) == [retry_count |-> st["retry_count"] + 1]

\* node "retry_counter"; its only edge goes to content_creator (A: 445, B: 799)
increment_retry_node ==
    /\ pc = "retry_counter"
    /\ state' = Update(state, increment_retry_result(state))
    /\ pc' = "content_creator"
    /\ attemptPrompt' = NO_PROMPT
    /\ UNCHANGED <<draft, ui, genCalls, lastGen, lastContent, creatorRuns,
                   validatorRuns, validatedRuns, notices>>
    /\ UNCHANGED <<fmtVars, appVars>>

\* what the handler shows of final_state (A: 472-532, B: 827-884)
rendering(st) ==
    [shown |-> "final_state", content |-> ~NoContent(st), error_history |-> HasErrors(st)]

\* app.invoke returned: the handler renders final_state
show_final_state ==
    /\ pc = "END"
    /\ ui = INVOKING
    /\ ui' = rendering(state)
    /\ UNCHANGED <<draft, state, pc, genCalls, lastGen, lastContent, creatorRuns,
                   validatorRuns, validatedRuns, notices>>
    /\ UNCHANGED <<attemptPrompt, fmtVars, appVars>>

\* app.invoke raised: `except Exception` of the handler (A: 536-537, B: 888-889)
show_critical_error ==
    /\ pc = "crashed"
    /\ ui = INVOKING
    /\ ui' = CRITICAL_ERROR
    /\ UNCHANGED <<draft, state, pc, genCalls, lastGen, lastContent, creatorRuns,
                   validatorRuns, validatedRuns, notices>>
    /\ UNCHANGED <<attemptPrompt, fmtVars, appVars>>

Next ==
    \/ analyze_image_node
    \/ create_social_content_node
    \/ validate_content_node
    \/ increment_retry_node
    \/ show_final_state
    \/ show_critical_error

Spec == Init /\ [][Next]_vars

\* One output of each kind the graph tells apart: one that passes, two that
\* fail validation (one of them repaired by fix_common_errors in draft B), one
\* with a field missing, and the empty object.
OutputKinds ==
    { MkContent(p) : p \in { Base,
                              [Base EXCEPT !.title = PIN_TITLE_MAX + 1],
                              [Base EXCEPT !.bad = 1],
                              [Base EXCEPT !.dropIg = {"caption"}],
                              [Base EXCEPT !.dropPlat = Platforms] } }

create_social_content_node_of_a_kind == content_creator(OutputKinds)

NextInvoke ==
    \/ analyze_image_node
    \/ create_social_content_node_of_a_kind
    \/ validate_content_node
    \/ increment_retry_node
    \/ show_final_state
    \/ show_critical_error

\* app.invoke runs the graph until it ends or a node raises, and the handler's
\* code after it runs: a step that can be taken is taken
SpecInvoke == Init /\ [][NextInvoke]_vars /\ WF_vars(NextInvoke)

(***************************************************************************)
(* format_feedback_for_prompt on its own: the feedback strings it is       *)
(* called with, and the path of draft B that produces them (the generated  *)
(* content goes through fix_common_errors, line 758, then through          *)
(* validate_content_node, line 770, and the next attempt formats the       *)
(* feedback, line 721).                                                    *)
(***************************************************************************)
\* the graph is not running
GraphIdle ==
    /\ draft = "B"
    /\ state = <<>>
    /\ pc = "not running"
    /\ ui = INVOKING
    /\ genCalls = 0
    /\ lastGen = "none"
    /\ lastContent = <<>>
    /\ attemptPrompt = NO_PROMPT
    /\ creatorRuns = 0
    /\ validatorRuns = 0
    /\ validatedRuns = 0
    /\ notices = <<>>

\* feedback values that no validation of a content produces: the default of
\* state.get('validation_feedback', ''), a passed validation (which ends the
\* graph), and the header alone
DirectFeedback == { <<>>, VALIDATION_PASSED, FAILED_HEADER }

InitFormat ==
    /\ GraphIdle
    /\ AppIdle
    /\ \/ \E content \in Candidates :
              fmt = [stage |-> "output", from_content |-> TRUE, output |-> content,
                     content |-> <<>>, feedback |-> <<>>, formatted |-> <<>>]
       \/ \E feedback \in DirectFeedback :
              fmt = [stage |-> "feedback", from_content |-> FALSE, output |-> <<>>,
                     content |-> <<>>, feedback |-> feedback, formatted |-> <<>>]

\* fixed_content = fix_common_errors(content) (B: 758)
errors_fixed ==
    /\ fmt.stage = "output"
    /\ fmt' = [fmt EXCEPT !.stage = "content",
                          !.content = fix_common_errors(fmt.output)]
    /\ UNCHANGED <<graphVars, appVars>>

\* validate_content_node on the content (B: 764-771)
feedback_produced ==
    /\ fmt.stage = "content"
    /\ fmt' = [fmt EXCEPT
                 !.stage = "feedback",
                 !.feedback = validate_content_result(
                                 [social_content |-> fmt.content]).validation_feedback]
    /\ UNCHANGED <<graphVars, appVars>>

\* formatted_feedback = format_feedback_for_prompt(feedback) (B: 721)
feedback_formatted ==
    /\ fmt.stage = "feedback"
    /\ fmt' = [fmt EXCEPT !.stage = "formatted",
                          !.formatted = format_feedback_for_prompt(fmt.feedback)]
    /\ UNCHANGED <<graphVars, appVars>>

NextFormat ==
    \/ errors_fixed
    \/ feedback_produced
    \/ feedback_formatted

SpecFormat == InitFormat /\ [][NextFormat]_vars

(***************************************************************************)
(* Claims.                                                                 *)
(***************************************************************************)
retry_count_of(st) == Get(st, "retry_count", 0)
feedback_of(st) == Get(st, "validation_feedback", <<>>)
error_history_of(st) == Get(st, "error_history", <<>>)
AnalysisFailed == "analysis" \notin DOMAIN state /\ HasErrors(state)
ValidationFailed(st) == Contains(feedback_of(st), "Failed")
Count(seq, x) == Cardinality({i \in 1..Len(seq) : seq[i] = x})

\* C1 (as claimed): the generation node makes at most max_retries model calls
\* for one job.
C1_AtMostMaxRetriesCalls ==
    genCalls <= state["max_retries"]

\* C1 (amended): the generation node runs at most max_retries + 1 times for one
\* job, one model call per run at most; a job that ends with its budget exhausted
\* (validation failed every time) made exactly max_retries + 1 calls.
C1_AtMostMaxRetriesPlusOneCalls ==
    /\ genCalls <= creatorRuns
    /\ creatorRuns <= state["max_retries"] + 1
    /\ (pc = "END" /\ ~HasErrors(state) /\ ValidationFailed(state))
          => genCalls = state["max_retries"] + 1

\* max_retries = 2, validation failed every time: stopped after 3 attempts
C1_Witness ==
    /\ pc = "END"
    /\ state["max_retries"] = 2
    /\ ~HasErrors(state)
    /\ ValidationFailed(state)
    /\ validatedRuns = 3
    /\ genCalls = 3

\* C2: a generation call that raises is recorded in error_history, and from then
\* on the job makes no generation call and does not run the generation node.
C2_HardFailureStopsJob ==
    [][ /\ (lastGen' = "failed" /\ genCalls' # genCalls)
            => /\ HasErrors(state')
               /\ error_history_of(state')[Len(error_history_of(state'))]
                     = "Content Generation Failed"
        /\ lastGen = "failed"
            => /\ genCalls' = genCalls
               /\ creatorRuns' = creatorRuns
               /\ pc' \in {"validator", "END"}
               /\ error_history_of(state') = error_history_of(state) ]_vars

\* a retry attempt hard-failed with budget left and a Failed feedback: job over
C2_Witness ==
    /\ pc = "END"
    /\ lastGen = "failed"
    /\ genCalls = 2
    /\ retry_count_of(state) < state["max_retries"]
    /\ ValidationFailed(state)

\* C3 (as claimed): after a failed image analysis no further node runs: the
\* generation node is not executed, no generation call is made, and the job ends
\* with the failure in error_history (app.invoke returns it).
C3_AnalysisFailureStopsJob ==
    AnalysisFailed =>
        /\ creatorRuns = 0
        /\ genCalls = 0
        /\ pc # "crashed"
        /\ ui # CRITICAL_ERROR

\* C4 (as claimed): when the generation call of attempt 0 raises, the job stops
\* with the validator node not run, validation_feedback never written and exactly
\* one entry in error_history.
C4_FirstFailureSkipsValidator ==
    (pc = "END" /\ lastGen = "failed" /\ genCalls = 1)
        => /\ validatorRuns = 0
           /\ "validation_feedback" \notin DOMAIN state
           /\ Len(error_history_of(state)) = 1

\* C5: retry_count (0 while the key is unset, as state.get('retry_count', 0)
\* reads it) never decreases and never exceeds max_retries; it changes only by
\* +1, in increment_retry_node, which runs only after should_continue answered
\* "retry": error_history empty, feedback Failed, retry_count < max_retries.
C5_RetryCountMonotoneBounded ==
    [][ LET rc  == retry_count_of(state)
            rc2 == retry_count_of(state')
        IN  /\ rc2 >= rc
            /\ rc2 <= state'["max_retries"]
            /\ state'["max_retries"] = state["max_retries"]
            /\ rc2 # rc
                => /\ rc2 = rc + 1
                   /\ pc = "retry_counter"
            /\ pc' = "retry_counter"
                => /\ pc = "validator"
                   /\ should_continue(state').route = "retry"
                   /\ ~HasErrors(state')
                   /\ ValidationFailed(state')
                   /\ rc2 < state'["max_retries"] ]_vars

\* the retry budget is used up: retry_count has reached max_retries = 3
C5_Witness ==
    /\ pc = "content_creator"
    /\ state["max_retries"] = MaxRetries
    /\ retry_count_of(state) = state["max_retries"]
    /\ creatorRuns = state["max_retries"]

PassedNow == ~HasErrors(state) /\ feedback_of(state) = VALIDATION_PASSED

\* C6: once validation returned "Validation Passed" the graph has ended: the
\* success notice was shown once, no node runs afterwards, and the content in the
\* final state (the one the handler renders) is the content that passed.
C6_PassedIsFinal ==
    /\ [](PassedNow =>
            /\ pc = "END"
            /\ Count(notices, "validated successfully") = 1
            /\ lastGen = "ok"
            /\ state["social_content"] = lastContent
            /\ comprehensive_content_validator(state["social_content"])
                  = VALIDATION_PASSED
            /\ ui.shown = "final_state" => (ui.content /\ ~ui.error_history))
    /\ [][PassedNow =>
            UNCHANGED <<state, pc, genCalls, creatorRuns, validatorRuns,
                        validatedRuns, notices>>]_vars

\* a job that passed at its second attempt, rendered
C6_Witness ==
    /\ PassedNow
    /\ retry_count_of(state) = 1
    /\ genCalls = 2
    /\ ui.shown = "final_state"

\* the output of the last attempt was validated and failed, with no retry left
\* at that moment (the retry counter has not run since)
BudgetExhausted ==
    /\ lastGen = "ok"
    /\ validatorRuns = genCalls
    /\ pc # "content_creator"
    /\ ValidationFailed(state)
    /\ retry_count_of(state) >= state["max_retries"]

CheckedPinFields == {"title", "description", "keywords"}

HasField(c, plat, f) == plat \in DOMAIN c /\ f \in DOMAIN c[plat]

AllFieldsPresent(c) ==
    /\ DOMAIN c = Platforms
    /\ DOMAIN c["instagram"] = IgFields
    /\ DOMAIN c["pinterest"] = PinFields

\* the field constraints, as the claim lists them
SatisfiesEveryConstraint(c) ==
    /\ Len(c["instagram"]["caption"]) <= IG_CAPTION_MAX
    /\ Len(c["instagram"]["alt_text"]) <= IG_ALT_TEXT_MAX
    /\ Len(c["instagram"]["hashtags"]) \in IG_HASHTAGS_MIN..IG_HASHTAGS_MAX
    /\ \A i \in 1..Len(c["instagram"]["hashtags"]) :
          c["instagram"]["hashtags"][i][1] = "#"
    /\ Len(c["pinterest"]["title"]) <= PIN_TITLE_MAX
    /\ Len(c["pinterest"]["description"]) <= PIN_DESCRIPTION_MAX
    /\ Len(c["pinterest"]["keywords"]) \in PIN_KEYWORDS_MIN..PIN_KEYWORDS_MAX
    /\ \A i \in 1..Len(c["pinterest"]["keywords"]) :
          c["pinterest"]["keywords"][i][1] # "#"

HoldsValidContent(st) ==
    /\ "social_content" \in DOMAIN st
    /\ AllFieldsPresent(st["social_content"])
    /\ SatisfiesEveryConstraint(st["social_content"])

\* C8: a content with every field present and every field constraint satisfied
\* (boundary values included) gets "Validation Passed" with no issue, and the
\* validator step that sees it ends the job instead of retrying.
C8_ValidContentPasses ==
    /\ [](HoldsValidContent(state) =>
            /\ validator_issues(state["social_content"]) = <<>>
            /\ comprehensive_content_validator(state["social_content"])
                  = VALIDATION_PASSED)
    /\ [][(pc = "validator" /\ HoldsValidContent(state)) =>
            /\ feedback_of(state') = VALIDATION_PASSED
            /\ should_continue(state').route = "end"
            /\ pc' = "END"]_vars

\* every constraint at its upper boundary, passed and ended
C8_Witness ==
    /\ pc = "END"
    /\ HoldsValidContent(state)
    /\ feedback_of(state) = VALIDATION_PASSED
    /\ Len(state["social_content"]["instagram"]["caption"]) = IG_CAPTION_MAX
    /\ Len(state["social_content"]["instagram"]["alt_text"]) = IG_ALT_TEXT_MAX
    /\ Len(state["social_content"]["instagram"]["hashtags"]) = IG_HASHTAGS_MAX
    /\ Len(state["social_content"]["pinterest"]["title"]) = PIN_TITLE_MAX
    /\ Len(state["social_content"]["pinterest"]["description"]) = PIN_DESCRIPTION_MAX
    /\ Len(state["social_content"]["pinterest"]["keywords"]) = PIN_KEYWORDS_MAX

\* the issues (by their fixed leading phrase) of the constraints that the present
\* fields of c violate
ViolatedConstraints(c) ==
    LET ig  == c["instagram"]
        pin == c["pinterest"]
    IN  {v \in {
          IF HasField(c, "instagram", "caption") /\ Len(ig["caption"]) > IG_CAPTION_MAX
             THEN "Instagram Caption: Exceeds 2,200 characters." ELSE "",
          IF HasField(c, "instagram", "alt_text") /\ Len(ig["alt_text"]) > IG_ALT_TEXT_MAX
             THEN "Instagram Alt Text: Exceeds 100 characters." ELSE "",
          IF HasField(c, "instagram", "hashtags")
             /\ Len(ig["hashtags"]) \notin IG_HASHTAGS_MIN..IG_HASHTAGS_MAX
             THEN "Instagram Hashtags: Incorrect count (" ELSE "",
          IF HasField(c, "instagram", "hashtags")
             /\ \E i \in 1..Len(ig["hashtags"]) : ig["hashtags"][i][1] # "#"
             THEN "Instagram Hashtags: Missing '#' on: " ELSE "",
          IF HasField(c, "pinterest", "title") /\ Len(pin["title"]) > PIN_TITLE_MAX
             THEN "Pinterest Title: Exceeds 100 characters." ELSE "",
          IF HasField(c, "pinterest", "description")
             /\ Len(pin["description"]) > PIN_DESCRIPTION_MAX
             THEN "Pinterest Description: Exceeds 500 characters." ELSE "",
          IF HasField(c, "pinterest", "keywords")
             /\ Len(pin["keywords"]) \notin PIN_KEYWORDS_MIN..PIN_KEYWORDS_MAX
             THEN "Pinterest Keywords: Incorrect count (" ELSE "",
          IF HasField(c, "pinterest", "keywords")
             /\ \E i \in 1..Len(pin["keywords"]) : pin["keywords"][i][1] = "#"
             THEN "Pinterest Keywords: Should not have '#': " ELSE "" } : v # ""}

\* the keys the validator requires and c lacks
MissingKeys(c) ==
    (Platforms \ DOMAIN c)
    \cup (IF "instagram" \in DOMAIN c THEN IgFields \ DOMAIN c["instagram"] ELSE {})
    \cup (IF "pinterest" \in DOMAIN c
          THEN CheckedPinFields \ DOMAIN c["pinterest"] ELSE {})

\* the validator has just judged the content of the last generation call
JustValidated ==
    /\ lastGen = "ok"
    /\ validatorRuns = genCalls
    /\ ~NoContent(state)
    /\ pc \in {"retry_counter", "END"}

\* C9 (as claimed): the one result of the validator holds an issue for every
\* constraint that a present field violates, Instagram and Pinterest alike (so a
\* list that breaks its count bound and its prefix rule gets both issues).
C9_EveryViolationReported ==
    JustValidated =>
        \A v \in ViolatedConstraints(state["social_content"]) :
            Contains(feedback_of(state), v)

\* C10 (as claimed): with a required key missing, the result names a missing key
\* and still holds the issue of every violated constraint of the present fields.
C10_MissingFieldSkipsOnlyItself ==
    (JustValidated /\ MissingKeys(state["social_content"]) # {}) =>
        /\ Contains(feedback_of(state),
                    "A required field is missing from the AI's response: ")
        /\ \E k \in MissingKeys(state["social_content"]) :
              Contains(feedback_of(state), k)
        /\ \A v \in ViolatedConstraints(state["social_content"]) :
              Contains(feedback_of(state), v)

\* the scalar text fields the schema declares with a maximum length (A: 312-320,
\* 387-388), each with the issue that names it
DeclaredMaxLengths ==
    { [plat |-> "instagram", field |-> "caption", max |-> IG_CAPTION_MAX,
       issue |-> "Instagram Caption: Exceeds 2,200 characters."],
      [plat |-> "instagram", field |-> "alt_text", max |-> IG_ALT_TEXT_MAX,
       issue |-> "Instagram Alt Text: Exceeds 100 characters."],
      [plat |-> "pinterest", field |-> "title", max |-> PIN_TITLE_MAX,
       issue |-> "Pinterest Title: Exceeds 100 characters."],
      [plat |-> "pinterest", field |-> "description", max |-> PIN_DESCRIPTION_MAX,
       issue |-> "Pinterest Description: Exceeds 500 characters."],
      [plat |-> "pinterest", field |-> "alt_text", max |-> PIN_ALT_TEXT_DECLARED_MAX,
       issue |-> "Pinterest Alt Text: Exceeds 500 characters."] }

\* C11 (as claimed): for a content with every field present, each scalar text
\* field with a declared maximum N (Instagram caption and alt_text, Pinterest
\* title, description and alt_text) gets its "exceeds N characters" issue in a
\* Failed outcome when it is longer than N, and no such issue when it is not.
C11_EveryDeclaredMaxEnforced ==
    (JustValidated /\ AllFieldsPresent(state["social_content"])) =>
        \A f \in DeclaredMaxLengths :
            IF Len(state["social_content"][f.plat][f.field]) > f.max
            THEN /\ ValidationFailed(state)
                 /\ Contains(feedback_of(state), f.issue)
            ELSE ~Contains(feedback_of(state), f.issue)

\* the field an issue is about, from its fixed leading phrase
FieldOfIssue(issue) ==
    CASE issue[1] = "Instagram Caption: Exceeds 2,200 characters." -> "ig.caption"
      [] issue[1] = "Instagram Alt Text: Exceeds 100 characters." -> "ig.alt_text"
      [] issue[1] = "Instagram Hashtags: Incorrect count (" -> "ig.hashtags"
      [] issue[1] = "Instagram Hashtags: Missing '#' on: " -> "ig.hashtags"
      [] issue[1] = "Pinterest Title: Exceeds 100 characters." -> "pin.title"
      [] issue[1] = "Pinterest Description: Exceeds 500 characters." -> "pin.description"
      [] issue[1] = "Pinterest Keywords: Incorrect count (" -> "pin.keywords"
      [] issue[1] = "Pinterest Keywords: Should not have '#': " -> "pin.keywords"
      [] OTHER -> "missing field"

\* the order in which the schema declares the fields (A: 311-324)
DeclarationOrder ==
    <<"ig.caption", "ig.hashtags", "ig.alt_text",
      "pin.title", "pin.description", "pin.keywords", "pin.alt_text">>

\* the order in which the validator checks them; the except clause comes last
CheckOrder ==
    <<"ig.caption", "ig.alt_text", "ig.hashtags",
      "pin.title", "pin.description", "pin.keywords", "missing field">>

Rank(order, field) ==
    IF \E i \in 1..Len(order) : order[i] = field
    THEN CHOOSE i \in 1..Len(order) : order[i] = field
    ELSE 0

\* the issues of `issues` about fields of `order` appear in that order
InOrder(issues, order) ==
    \A i, j \in 1..Len(issues) :
        (/\ i < j
         /\ Rank(order, FieldOfIssue(issues[i])) # 0
         /\ Rank(order, FieldOfIssue(issues[j])) # 0)
            => Rank(order, FieldOfIssue(issues[i])) <= Rank(order, FieldOfIssue(issues[j]))

\* C12 (as claimed): the issues of one validation follow the declaration order of
\* the schema (Instagram caption, hashtags, alt_text, then Pinterest title,
\* description, keywords, alt_text).
C12_IssuesInDeclarationOrder ==
    JustValidated => InOrder(validator_issues(state["social_content"]), DeclarationOrder)

\* C12 (amended): the feedback is the header followed by the issues in the order
\* of the validator's checks (Instagram caption, alt_text, hashtags, then
\* Pinterest title, description, keywords), the missing-field issue last.
C12_IssuesInCheckOrder ==
    JustValidated =>
        LET issues == validator_issues(state["social_content"])
        IN  /\ InOrder(issues, CheckOrder)
            /\ \A i \in 1..Len(issues) : Rank(CheckOrder, FieldOfIssue(issues[i])) # 0
            /\ feedback_of(state) =
                  (IF issues = <<>> THEN VALIDATION_PASSED
                   ELSE Join(ISSUE_SEP, <<FAILED_HEADER>> \o issues))

\* a validation that reported Instagram alt_text, hashtags and Pinterest issues
C12_Witness ==
    /\ JustValidated
    /\ Contains(feedback_of(state), "Instagram Alt Text: Exceeds 100 characters.")
    /\ Contains(feedback_of(state), "Instagram Hashtags: Incorrect count (")
    /\ Contains(feedback_of(state), "Pinterest Title: Exceeds 100 characters.")
    /\ Contains(feedback_of(state), "Pinterest Keywords: Should not have '#': ")

(***************************************************************************)
(* The active Streamlit script (lines 1-269).  Every interaction of the    *)
(* user makes Streamlit run the script from its first line with the widget *)
(* values the browser holds; a button is down only in the run its click    *)
(* started.  A run stands at "generating" while it is inside the loop of   *)
(* the Generate button, once per generate_for_platform call.               *)
(***************************************************************************)
PLATFORM_ORDER == <<"instagram", "facebook", "x", "pinterest", "linkedin">>

\* PLATFORM_CONFIG (89-95) with the fields of each pydantic_model (66-86) and the
\* item counts their descriptions state
PLATFORM_CONFIG ==
    [instagram |-> [name |-> "Instagram", fields |-> {"caption", "hashtags", "alt_text"},
                    list |-> "hashtags", min |-> 15, max |-> 20],
     facebook  |-> [name |-> "Facebook", fields |-> {"post_text", "headline"},
                    list |-> None, min |-> 0, max |-> 0],
     x         |-> [name |-> "X (Twitter)", fields |-> {"tweet", "hashtags"},
                    list |-> "hashtags", min |-> 2, max |-> 3],
     pinterest |-> [name |-> "Pinterest", fields |-> {"title", "description", "keywords"},
                    list |-> "keywords", min |-> 10, max |-> 15],
     linkedin  |-> [name |-> "LinkedIn", fields |-> {"post_text", "hashtags"},
                    list |-> "hashtags", min |-> 3, max |-> 5]]

\* the platforms whose checkbox the user ticks
UsedPlatforms == {PLATFORM_ORDER[i] : i \in 1..NumPlatforms}

\* an empty dict
EMPTY_DICT == [k \in {} |-> <<>>]

\* JSON objects the model may answer with for a platform: one that follows the
\* schema and its stated counts, one that follows the schema and breaks the
\* counts, one with other field names, and the empty object
JsonObject(k, items) ==
    [f \in PLATFORM_CONFIG[k].fields |->
        IF f = PLATFORM_CONFIG[k].list
        THEN (IF f = "keywords" THEN Keywords(items, 0) ELSE Hashtags(items, 0))
        ELSE <<"t", "e", "x", "t">>]

Conforming(k) == JsonObject(k, PLATFORM_CONFIG[k].min)

BreakingCounts(k) == JsonObject(k, PLATFORM_CONFIG[k].max + 1)

OTHER_FIELDS == [text |-> <<"t", "e", "x", "t">>]

JsonObjects(k) == {Conforming(k), BreakingCounts(k), OTHER_FIELDS, EMPTY_DICT}

\* what model.invoke does: it raises, or returns a response whose content is a
\* JSON object or is not JSON
ModelOutcomes(k) ==
    {[kind |-> "raises", value |-> EMPTY_DICT], [kind |-> "not json", value |-> EMPTY_DICT]}
    \cup {[kind |-> "json", value |-> v] : v \in JsonObjects(k)}

\* what the user may type, and what the environment may hold
Passwords == {"", "secret", "wrong"}
EnvPasswords == {None, "", "secret"}
ApiKeys == {None, "", "key"}
UploadableFiles == {[name |-> n, image |-> i] : n \in {"a.jpg", "b.png"}, i \in {"img1", "img2"}}

\* truthiness of a str or None from os.getenv or the session
Truthy(v) == v # None /\ v # ""

\* check_password (20-35): the session it leaves, what it returns, whether it
\* called st.rerun() and whether it showed "Incorrect password"
check_password(sess, password, login, correct_password) ==
    LET s1 == IF "password_correct" \in DOMAIN sess THEN sess
              ELSE Update(sess, [password_correct |-> FALSE])
    IN  IF s1["password_correct"]
        THEN [session |-> s1, result |-> TRUE, rerun |-> FALSE, error |-> FALSE]
        ELSE IF login /\ password = correct_password
        THEN [session |-> Update(s1, [password_correct |-> TRUE]),
              result |-> FALSE, rerun |-> TRUE, error |-> FALSE]
        ELSE [session |-> s1, result |-> FALSE, rerun |-> FALSE, error |-> login]

\* "Initialize session state" (49-63): a key is written only when it is absent
SESSION_DEFAULTS ==
    [generated_content |-> EMPTY_DICT, image_base64 |-> None,
     platforms_selected |-> <<>>, business_context |-> "",
     last_uploaded_filename |-> None, just_generated |-> FALSE, pil_image |-> None]

initialise_session_state(sess) == sess @@ SESSION_DEFAULTS

\* base64.b64encode of the image saved as JPEG (154-158)
b64encode_jpeg(image) ==
    CASE image = "img1" -> "b64(jpeg(img1))"
      [] image = "img2" -> "b64(jpeg(img2))"

\* `if uploaded_file:` (145-158)
process_upload(sess, file) ==
    IF file.name = None THEN sess
    ELSE LET s1 == IF sess["last_uploaded_filename"] # file.name
                   THEN Update(sess, [generated_content |-> EMPTY_DICT,
                                      last_uploaded_filename |-> file.name])
                   ELSE sess
         IN  Update(s1, [pil_image |-> file.image,
                         image_base64 |-> b64encode_jpeg(file.image)])

\* the checkboxes, read in the order of PLATFORM_CONFIG (184-193)
selected_platforms(checked) == SelectSeq(PLATFORM_ORDER, LAMBDA k : k \in checked)

\* can_generate (197)
can_generate(sess) == Truthy(sess["image_base64"]) /\ sess["platforms_selected"] # <<>>

\* faulty variant: st.stop() left out, the script goes on after a closed gate
script_to_button_without_stop(sess, widg, login, trigger) ==
    LET gate == check_password(sess, widg.password, login, env.APP_PASSWORD)
        s1 == initialise_session_state(gate.session)
        s2 == process_upload(s1, widg.uploaded_file)
        s3 == Update(s2, [platforms_selected |-> selected_platforms(widg.checked)])
    IN  IF gate.rerun
        THEN [session |-> gate.session,
              run |-> [NEW_RUN EXCEPT !.trigger = trigger, !.gate = "stopped",
                                      !.phase = "rerun"]]
        ELSE [session |-> s3,
              run |-> [NEW_RUN EXCEPT !.trigger = trigger, !.gate = "passed",
                                      !.initialised = TRUE,
                                      !.upload_processed = widg.uploaded_file.name # None,
                                      !.rendered = "app",
                                      !.can_generate = can_generate(s3)]]

\* the script from its first line to the Generate button (20-199)
script_to_button(sess, widg, login, trigger) ==
    LET gate == check_password(sess, widg.password, login, env.APP_PASSWORD)
    IN  IF ~gate.result
        THEN [session |-> gate.session,
              run |-> [NEW_RUN EXCEPT !.trigger = trigger, !.gate = "stopped",
                                      !.phase = IF gate.rerun THEN "rerun" ELSE "done",
                                      !.rendered = IF gate.rerun THEN "nothing" ELSE "gate",
                                      !.login_error = gate.error]]
        ELSE LET s1 == initialise_session_state(gate.session)
                 s2 == process_upload(s1, widg.uploaded_file)
                 s3 == Update(s2, [platforms_selected |-> selected_platforms(widg.checked)])
             IN  [session |-> s3,
                  run |-> [NEW_RUN EXCEPT !.trigger = trigger, !.gate = "passed",
                                          !.initialised = TRUE,
                                          !.upload_processed = widg.uploaded_file.name # None,
                                          !.rendered = "app",
                                          !.can_generate = can_generate(s3)]]

\* faulty variant: a tab for every stored platform, selected or not
platform_keys_with_all_content(sess) ==
    SelectSeq(PLATFORM_ORDER, LAMBDA k : k \in DOMAIN sess["generated_content"])

\* platform_keys_with_content (225-228)
platform_keys_with_content(sess) ==
    SelectSeq(sess["platforms_selected"],
              LAMBDA k : k \in DOMAIN sess["generated_content"])

\* "Display Generated Content" (220-269): the tabs, and just_generated reset.
\* st.tabs raises StreamlitAPIException when its list of labels is empty; the
\* run ends there, with the widgets above it rendered.
display_generated_content(sess, r) ==
    IF DOMAIN sess["generated_content"] = {}
    THEN [session |-> sess, run |-> [r EXCEPT !.phase = "done"]]
    ELSE IF platform_keys_with_content(sess) = <<>>
    THEN [session |-> sess,
          run |-> [r EXCEPT !.phase = "done", !.results_shown = TRUE,
                            !.exception = "StreamlitAPIException"]]
    ELSE [session |-> Update(sess, [just_generated |-> FALSE]),
          run |-> [r EXCEPT !.phase = "done", !.results_shown = TRUE,
                            !.tabs = platform_keys_with_content(sess)]]

\* a whole script run in which the Generate button is not down
script_run(sess, widg, login, trigger) ==
    LET top == script_to_button(sess, widg, login, trigger)
    IN  IF top.run.gate = "stopped" THEN top
        ELSE display_generated_content(top.session, top.run)

\* faulty variant: a second model.invoke after one that raised
generate_for_platform_retrying(platform_key, google_api_key, outcome) ==
    IF platform_key \notin DOMAIN PLATFORM_CONFIG
    THEN [platform |-> platform_key, raised |-> "KeyError", model_calls |-> 0,
          reported |-> FALSE, returned |-> FALSE, value |-> EMPTY_DICT]
    ELSE IF ~Truthy(google_api_key)
    THEN [platform |-> platform_key, raised |-> "no", model_calls |-> 0,
          reported |-> TRUE, returned |-> FALSE, value |-> EMPTY_DICT]
    ELSE IF outcome.kind = "raises"
    THEN [platform |-> platform_key, raised |-> "no", model_calls |-> 2,
          reported |-> TRUE, returned |-> FALSE, value |-> EMPTY_DICT]
    ELSE IF outcome.kind = "not json"
    THEN [platform |-> platform_key, raised |-> "no", model_calls |-> 1,
          reported |-> TRUE, returned |-> FALSE, value |-> EMPTY_DICT]
    ELSE [platform |-> platform_key, raised |-> "no", model_calls |-> 1,
          reported |-> FALSE, returned |-> TRUE, value |-> outcome.value]

\* faulty variant: the key test after the model call
generate_for_platform_late_key_test(platform_key, google_api_key, outcome) ==
    IF platform_key \notin DOMAIN PLATFORM_CONFIG
    THEN [platform |-> platform_key, raised |-> "KeyError", model_calls |-> 0,
          reported |-> FALSE, returned |-> FALSE, value |-> EMPTY_DICT]
    ELSE IF ~Truthy(google_api_key)
    THEN [platform |-> platform_key, raised |-> "no", model_calls |-> 1,
          reported |-> TRUE, returned |-> FALSE, value |-> EMPTY_DICT]
    ELSE IF outcome.kind \in {"raises", "not json"}
    THEN [platform |-> platform_key, raised |-> "no", model_calls |-> 1,
          reported |-> TRUE, returned |-> FALSE, value |-> EMPTY_DICT]
    ELSE [platform |-> platform_key, raised |-> "no", model_calls |-> 1,
          reported |-> FALSE, returned |-> TRUE, value |-> outcome.value]

\* generate_for_platform (98-128), given what model.invoke does: the number of
\* model.invoke calls, whether st.error reported a failure, and the parsed
\* content it returns (returned is FALSE for `return None`); PLATFORM_CONFIG is
\* read before the try block, so an unknown key raises KeyError to the caller
generate_for_platform(platform_key, google_api_key, outcome) ==
    IF platform_key \notin DOMAIN PLATFORM_CONFIG
    THEN [platform |-> platform_key, raised |-> "KeyError", model_calls |-> 0,
          reported |-> FALSE, returned |-> FALSE, value |-> EMPTY_DICT]
    ELSE IF ~Truthy(google_api_key)
    THEN [platform |-> platform_key, raised |-> "no", model_calls |-> 0,
          reported |-> TRUE, returned |-> FALSE, value |-> EMPTY_DICT]
    ELSE IF outcome.kind \in {"raises", "not json"}
    THEN [platform |-> platform_key, raised |-> "no", model_calls |-> 1,
          reported |-> TRUE, returned |-> FALSE, value |-> EMPTY_DICT]
    ELSE [platform |-> platform_key, raised |-> "no", model_calls |-> 1,
          reported |-> FALSE, returned |-> TRUE, value |-> outcome.value]

\* faulty variant: `if content is not None:`
content_is_not_none(call) == call.returned

\* `if content:` (211): None and the empty dict are falsy
content_truthy(call) == call.returned /\ DOMAIN call.value # {}

InitApp ==
    /\ GraphIdle
    /\ fmt = FMT_IDLE
    /\ \E pw \in EnvPasswords, key \in ApiKeys :
          env = [APP_PASSWORD |-> pw, GOOGLE_API_KEY |-> key]
    /\ session = <<>>
    /\ widgets = NO_WIDGETS
    /\ run = [NEW_RUN EXCEPT !.phase = "start"]
    /\ generated_from = <<>>

\* generated_from for the entries that generated_content still holds
still_stored(from, sess) ==
    Restrict(from, DOMAIN from \cap DOMAIN Get(sess, "generated_content", EMPTY_DICT))

\* a run that ends without entering the Generate loop
RunScript(widg, login, trigger) ==
    LET r == script_run(session, widg, login, trigger)
    IN  /\ widgets' = widg
        /\ session' = r.session
        /\ run' = r.run
        /\ generated_from' = still_stored(generated_from, r.session)
        /\ UNCHANGED <<env, graphVars, fmtVars>>

\* the browser opens the page: the first run of the session
page_load ==
    /\ run.phase = "start"
    /\ RunScript(widgets, FALSE, "load")

\* the user types into the password field
enter_password ==
    /\ run.phase = "done"
    /\ run.rendered = "gate"
    /\ \E p \in Passwords \ {widgets.password} :
          RunScript([widgets EXCEPT !.password = p], FALSE, "password")

\* the user clicks Login
click_login ==
    /\ run.phase = "done"
    /\ run.rendered = "gate"
    /\ RunScript(widgets, TRUE, "login")

\* st.rerun() (32): Streamlit runs the script again
rerun ==
    /\ run.phase = "rerun"
    /\ RunScript(widgets, FALSE, "rerun")

\* the user uploads a file, or the same file again
upload_file ==
    /\ run.phase = "done"
    /\ run.rendered = "app"
    /\ \E f \in UploadableFiles :
          RunScript([widgets EXCEPT !.uploaded_file = f], FALSE, "upload")

\* the user removes the file from the uploader
remove_file ==
    /\ run.phase = "done"
    /\ run.rendered = "app"
    /\ widgets.uploaded_file # NO_FILE
    /\ RunScript([widgets EXCEPT !.uploaded_file = NO_FILE], FALSE, "upload")

\* the user ticks or unticks a platform
toggle_platform ==
    /\ run.phase = "done"
    /\ run.rendered = "app"
    /\ \E k \in UsedPlatforms :
          RunScript([widgets EXCEPT !.checked =
                        IF k \in @ THEN @ \ {k} ELSE @ \cup {k}], FALSE, "platform")

\* the user clicks Generate Content: the run reaches the loop (199-202)
\* faulty variant: the stored results left in place when Generate is clicked
keep_generated_content(sess) == sess

\* `st.session_state.generated_content = {}` (200)
clear_generated_content(sess) == Update(sess, [generated_content |-> EMPTY_DICT])

click_generate ==
    /\ run.phase = "done"
    /\ run.rendered = "app"
    /\ run.can_generate
    /\ LET top == script_to_button(session, widgets, FALSE, "generate")
       IN  /\ session' = clear_generated_content(top.session)
           /\ run' = [top.run EXCEPT !.phase = "generating",
                                     !.todo = top.session["platforms_selected"],
                                     !.had = DOMAIN top.session["generated_content"]]
    /\ generated_from' = <<>>
    /\ UNCHANGED <<env, widgets, graphVars, fmtVars>>

\* faulty variant: the loop left at the first call that fails
remaining_after_break_on_failure(call, todo) ==
    IF call.reported THEN <<>> ELSE Tail(todo)

\* the `for` statement (202): whatever the call did, the loop goes on with the
\* platforms after it
remaining_after(call, todo) == Tail(todo)

\* one pass of the loop (202-212): one generate_for_platform call and its result
generate_next_platform ==
    /\ run.phase = "generating"
    /\ run.todo # <<>>
    /\ \E outcome \in ModelOutcomes(Head(run.todo)) :
          LET call == generate_for_platform(Head(run.todo), env.GOOGLE_API_KEY, outcome)
              stored == content_truthy(call)
          IN  /\ session' =
                    IF stored
                    THEN Update(session,
                           [generated_content |->
                               (Head(run.todo) :> call.value) @@ session["generated_content"]])
                    ELSE session
              /\ generated_from' =
                    IF stored
                    THEN (Head(run.todo) :> session["image_base64"]) @@ generated_from
                    ELSE generated_from
              /\ run' = [run EXCEPT !.todo = remaining_after(call, @),
                                    !.calls = Append(@, call @@ [stored |-> stored,
                                                                 outcome |-> outcome])]
    /\ UNCHANGED <<env, widgets, graphVars, fmtVars>>

\* the rest of the run after the loop (214-269)
finish_generate ==
    /\ run.phase = "generating"
    /\ run.todo = <<>>
    /\ LET s1 == IF DOMAIN session["generated_content"] # {}
                 THEN Update(session, [just_generated |-> TRUE])
                 ELSE session
           end == display_generated_content(s1, run)
       IN  /\ session' = end.session
           /\ run' = end.run
    /\ UNCHANGED <<env, widgets, generated_from, graphVars, fmtVars>>

\* the widget values after one more interaction with a widget of the tool
one_interaction(widg) ==
    {[widg EXCEPT !.checked = IF k \in @ THEN @ \ {k} ELSE @ \cup {k}] :
        k \in UsedPlatforms}
    \cup {[widg EXCEPT !.uploaded_file = f] : f \in UploadableFiles}

\* The user interacts with a widget while the Generate loop runs.  Streamlit
\* asks the run to stop and the run stops at its next st.* command: the
\* generate_for_platform call under way returns and its content is stored (211-
\* 212), the status.update of the next pass (205) or of the end of the loop
\* (217, after 214-215) stops the run, and the script runs again with the new
\* widget values and the Generate button up.
interrupt_generate ==
    /\ run.phase = "generating"
    /\ \E widg \in one_interaction(widgets) :
          LET s1 == IF run.todo = <<>> /\ DOMAIN session["generated_content"] # {}
                    THEN Update(session, [just_generated |-> TRUE])
                    ELSE session
              r == script_run(s1, widg, FALSE, "interrupt")
          IN  /\ widgets' = widg
              /\ session' = r.session
              /\ run' = [r.run EXCEPT !.unfinished = run.todo]
              /\ generated_from' = still_stored(generated_from, r.session)
    /\ UNCHANGED <<env, graphVars, fmtVars>>

NextApp ==
    \/ page_load
    \/ enter_password
    \/ click_login
    \/ rerun
    \/ upload_file
    \/ remove_file
    \/ toggle_platform
    \/ click_generate
    \/ generate_next_platform
    \/ finish_generate
    \/ interrupt_generate

SpecApp == InitApp /\ [][NextApp]_vars

(***************************************************************************)
(* main.py as a whole: the program run is the active script or one of the  *)
(* two drafts.                                                             *)
(***************************************************************************)
InitProgram == Init \/ InitApp

NextProgram == Next \/ NextApp

SpecProgram == InitProgram /\ [][NextProgram]_vars

\* C13: format_feedback_for_prompt returns the empty string when there is nothing
\* to report: for "Validation Passed", for an empty feedback and for the Failed
\* header with no issue after it.  (The function reads nothing but its argument,
\* so the same feedback always gives the same text.)
C13_NothingToReportIsEmpty ==
    fmt.stage = "formatted" =>
        /\ fmt.feedback \in DirectFeedback => fmt.formatted = <<>>
        /\ fmt.feedback = VALIDATION_PASSED => fmt.formatted = <<>>
        /\ (fmt.from_content /\ ~NoContent([social_content |-> fmt.content])
            /\ validator_issues(fmt.content) = <<>>) => fmt.formatted = <<>>

\* the header alone was formatted
C13_Witness ==
    /\ fmt.stage = "formatted"
    /\ fmt.feedback = FAILED_HEADER
    /\ fmt.formatted = <<>>

\* the entries of a formatted block: its lines between the two fixed parts
EntriesOf(formatted) ==
    Split(SubSeq(formatted, Len(FEEDBACK_BLOCK_OPEN) + 1,
                 Len(formatted) - Len(FEEDBACK_BLOCK_CLOSE)),
          <<"\n">>)

IsFeedbackBlock(formatted) ==
    /\ Len(formatted) >= Len(FEEDBACK_BLOCK_OPEN) + Len(FEEDBACK_BLOCK_CLOSE)
    /\ StartsAt(formatted, FEEDBACK_BLOCK_OPEN, 1)
    /\ StartsAt(formatted, FEEDBACK_BLOCK_CLOSE,
                Len(formatted) - Len(FEEDBACK_BLOCK_CLOSE) + 1)

\* a content was validated with at least one issue, and its feedback formatted
FormattedIssues ==
    /\ fmt.stage = "formatted"
    /\ fmt.from_content
    /\ ~NoContent([social_content |-> fmt.content])
    /\ validator_issues(fmt.content) # <<>>

\* C14: the feedback of a failed validation with N >= 1 issues is formatted as a
\* block of exactly N entries, the i-th numbered i and carrying the text of the
\* i-th issue of the validator's list, in the same order.  (The first entry
\* keeps the "- " of the separator in front of its issue: strip() removes the
\* line break before it, and split() then finds no separator there.)
C14_NumberedInOrder ==
    FormattedIssues =>
        LET issues  == validator_issues(fmt.content)
            entries == EntriesOf(fmt.formatted)
        IN  /\ IsFeedbackBlock(fmt.formatted)
            /\ Len(entries) = Len(issues)
            /\ \A i \in 1..Len(issues) :
                  entries[i] =
                     <<ToString(i), ".", " ">>
                     \o (IF i = 1 THEN <<"-", " ">> ELSE <<>>) \o issues[i]

\* three issues, one of them quoting a keyword with a line break and "- " in it
C14_Witness ==
    /\ FormattedIssues
    /\ Len(validator_issues(fmt.content)) >= 2
    /\ HasField(fmt.content, "pinterest", "keywords")
    /\ \E i \in 1..Len(fmt.content["pinterest"]["keywords"]) :
          /\ startswith_hash(fmt.content["pinterest"]["keywords"][i])
          /\ Contains(fmt.content["pinterest"]["keywords"][i], "\n")
    /\ Contains(fmt.formatted, "Pinterest Keywords: Should not have '#': ")

\* the generate_for_platform calls of the Generate action under way or just ended
CallsOf(r) == {r.calls[i] : i \in 1..Len(r.calls)}

\* C15: one invocation of the generation client makes at most one model call and
\* no second one after a failure: a generate_for_platform call runs model.invoke
\* once when GOOGLE_API_KEY is set (whether it raises, answers JSON or answers
\* something else) and never otherwise; a run of create_social_content_node that
\* reaches its model code (401-408) runs (model | parser).invoke once, and
\* model calls are made by nothing else.
C15_OneModelCallPerInvocation ==
    [][ /\ creatorRuns' # creatorRuns
            => /\ creatorRuns' = creatorRuns + 1
               /\ genCalls' = genCalls + (IF "analysis" \in DOMAIN state THEN 1 ELSE 0)
        /\ creatorRuns' = creatorRuns => genCalls' = genCalls
        /\ run'.calls # run.calls /\ run'.calls # <<>>
            => /\ run.phase = "generating"
               /\ run'.calls = Append(run.calls, run'.calls[Len(run'.calls)])
               /\ LET call == run'.calls[Len(run'.calls)]
                  IN  /\ call.platform = Head(run.todo)
                      /\ call.model_calls <= 1
                      /\ Truthy(env.GOOGLE_API_KEY) => call.model_calls = 1 ]_vars

\* a Generate action whose first call failed in model.invoke or in the parse and
\* whose second call returned content: one model call each
C15_Witness ==
    /\ run.phase = "done"
    /\ Len(run.calls) = 2
    /\ run.calls[1].outcome.kind \in {"raises", "not json"}
    /\ run.calls[1].model_calls = 1
    /\ run.calls[2].stored
    /\ run.calls[2].model_calls = 1

\* a Generate action of the active script is under way or has just ended
Generating == run.trigger = "generate" /\ run.phase \in {"generating", "done"}

\* C16: a Generate action calls generate_for_platform once for each platform of
\* platforms_selected, in the order of that list, and stores what a call returns
\* whenever it is a non-empty parsed JSON object, unchanged and unchecked
\* against the platform's limits; nothing else is stored.
C16_OneCallPerPlatformStoredUnchecked ==
    Generating =>
        /\ [i \in 1..Len(run.calls) |-> run.calls[i].platform] \o run.todo
              = session["platforms_selected"]
        /\ \A i \in 1..Len(run.calls) :
              LET call == run.calls[i]
              IN  /\ call.model_calls <= 1
                  /\ call.stored <=>
                        /\ Truthy(env.GOOGLE_API_KEY)
                        /\ call.outcome.kind = "json"
                        /\ DOMAIN call.outcome.value # {}
                  /\ call.stored =>
                        /\ call.platform \in DOMAIN session["generated_content"]
                        /\ session["generated_content"][call.platform]
                              = call.outcome.value
        /\ DOMAIN session["generated_content"]
              = {c.platform : c \in {d \in CallsOf(run) : d.stored}}

\* the list of a content holds more items than the platform's description allows
BreaksStatedCount(k, content) ==
    /\ PLATFORM_CONFIG[k].list \in DOMAIN content
    /\ Len(content[PLATFORM_CONFIG[k].list]) > PLATFORM_CONFIG[k].max

\* both platforms generated, Instagram with 21 hashtags (15-20 asked), stored
C16_Witness ==
    /\ Generating
    /\ run.phase = "done"
    /\ session["platforms_selected"] = <<"instagram", "facebook">>
    /\ DOMAIN session["generated_content"] = {"instagram", "facebook"}
    /\ BreaksStatedCount("instagram", session["generated_content"]["instagram"])

\* platform keys that PLATFORM_CONFIG does not hold
UnknownPlatforms == {"tiktok", ""}

\* C17: with GOOGLE_API_KEY missing (unset or empty) a generate_for_platform call
\* fails, reported, without running model.invoke; with a platform key that
\* PLATFORM_CONFIG does not hold it raises before the try block, model.invoke
\* not run either.
C17_ConfigurationFailureBeforeAnyCall ==
    /\ ~Truthy(env.GOOGLE_API_KEY) =>
          \A call \in CallsOf(run) :
              /\ call.model_calls = 0
              /\ call.reported
              /\ ~call.returned
              /\ ~call.stored
    /\ \A k \in UnknownPlatforms, o \in ModelOutcomes("instagram") :
          LET call == generate_for_platform(k, env.GOOGLE_API_KEY, o)
          IN  call.model_calls = 0 /\ call.raised = "KeyError" /\ ~call.returned

\* a Generate action for two platforms with GOOGLE_API_KEY unset, ended
C17_Witness ==
    /\ Generating
    /\ run.phase = "done"
    /\ env.GOOGLE_API_KEY = None
    /\ Len(run.calls) = 2
    /\ \A i \in 1..2 : run.calls[i].reported /\ run.calls[i].model_calls = 0

\* C18 (as claimed): after each generate_for_platform call of a Generate action,
\* either content is stored for the platform or a failure was reported.
C18_StoredOrReported ==
    \A call \in CallsOf(run) :
        \/ call.stored /\ call.platform \in DOMAIN session["generated_content"]
        \/ call.reported

\* C19 (as claimed): a response that is not JSON, or whose JSON object does not
\* have the field names of the platform's schema, makes the call fail (reported)
\* and is never returned as content nor stored.
C19_MalformedResponseFails ==
    \A call \in CallsOf(run) :
        (/\ call.model_calls = 1
         /\ \/ call.outcome.kind = "not json"
            \/ /\ call.outcome.kind = "json"
               /\ DOMAIN call.outcome.value # PLATFORM_CONFIG[call.platform].fields)
            => /\ call.reported
               /\ ~call.returned
               /\ ~call.stored

password_correct(sess) == Get(sess, "password_correct", FALSE)

\* C20: a script run that starts with password_correct false stops at the gate:
\* it initialises no session key, processes no upload, renders no widget of the
\* tool and calls no model; password_correct becomes true only in a run started
\* by a Login click with the typed password equal to APP_PASSWORD (never with
\* APP_PASSWORD unset), and once true it stays true.
C20_GateInFrontOfTheTool ==
    /\ [](~password_correct(session) =>
            /\ DOMAIN session \subseteq {"password_correct"}
            /\ run.phase \in {"start", "done"}
            /\ run.rendered \in {"nothing", "gate"}
            /\ ~run.initialised /\ ~run.upload_processed
            /\ run.calls = <<>>)
    /\ [][  /\ (~password_correct(session) /\ run' # run)
                => /\ run'.gate = "stopped"
                   /\ ~run'.initialised /\ ~run'.upload_processed
                   /\ run'.calls = <<>>
                   /\ run'.rendered # "app"
                   /\ DOMAIN session' = {"password_correct"}
            /\ (~password_correct(session) /\ password_correct(session'))
                => /\ run'.trigger = "login"
                   /\ env.APP_PASSWORD # None
                   /\ widgets'.password = env.APP_PASSWORD
            /\ password_correct(session) => password_correct(session') ]_vars

\* a Login click refused because APP_PASSWORD is unset
C20_Witness ==
    /\ run.trigger = "login"
    /\ run.login_error
    /\ env.APP_PASSWORD = None
    /\ ~password_correct(session)

\* the feedback that validating the output of the last generation call gives
\* (lastContent is recorded by the call itself, not read back from the state)
FeedbackOfLastAttempt ==
    validate_content_result([social_content |-> lastContent]).validation_feedback

\* the issues the validator node reports on a content, one text each
ReportedIssues(content) ==
    IF NoContent([social_content |-> content]) THEN << NO_CONTENT_FEEDBACK >>
    ELSE validator_issues(content)

\* the block carries the feedback: in draft A the feedback itself between the two
\* tags, in draft B one numbered entry per issue, in the order of the issues
CarriesFeedback(d, block, feedback, content) ==
    IF d = "A"
    THEN block = <<"<PREVIOUS_ATTEMPT_FEEDBACK>">> \o feedback
                 \o <<"</PREVIOUS_ATTEMPT_FEEDBACK>">>
    ELSE LET issues  == ReportedIssues(content)
             entries == EntriesOf(block)
         IN  /\ IsFeedbackBlock(block)
             /\ Len(entries) = Len(issues)
             /\ \A i \in 1..Len(issues) :
                   \E lead \in { <<>>, <<"-", " ">> } :
                       entries[i] = <<ToString(i), ".", " ">> \o lead \o issues[i]

\* the feedback block of the prompt of the attempt under way
BlockInPrompt(p) == prompt_feedback_block(draft, p.feedback)

\* C21: the prompt of the first attempt holds no feedback block; the prompt of
\* every retry is built from the feedback (a Failed one) that the validation of
\* the output of the attempt just before it produced, never from the feedback of
\* an older attempt, and its feedback block carries that feedback.
C21_RetryPromptCarriesLastFeedback ==
    [][ /\ (attemptPrompt'.built /\ attemptPrompt' # attemptPrompt)
              => pc = "content_creator"
        /\ (creatorRuns' # creatorRuns /\ "analysis" \in DOMAIN state) =>
              /\ attemptPrompt'.built
              /\ attemptPrompt'.attempt = creatorRuns
              /\ IF creatorRuns = 0
                 THEN BlockInPrompt(attemptPrompt') = <<>>
                 ELSE LET feedback == FeedbackOfLastAttempt
                      IN  /\ lastGen = "ok"
                          /\ validatorRuns = creatorRuns
                          /\ Contains(feedback, "Failed")
                          /\ attemptPrompt'.feedback = feedback
                          /\ CarriesFeedback(draft, BlockInPrompt(attemptPrompt'),
                                             feedback, lastContent) ]_vars

\* draft B, third attempt: its prompt lists the title issue of the second output
C21_Witness ==
    /\ draft = "B"
    /\ pc = "validator"
    /\ attemptPrompt.attempt = 2
    /\ Contains(BlockInPrompt(attemptPrompt), "Pinterest Title: Exceeds 100 characters.")
    /\ ~Contains(BlockInPrompt(attemptPrompt), "Instagram Caption: Exceeds 2,200 characters.")

\* the graph reached END, or app.invoke raised
Terminal == pc \in {"END", "crashed"}

\* C22: whatever max_retries and whatever the analysis, the generation calls and
\* the validations give, the job reaches a terminal state (the graph at END, or
\* app.invoke ended by an exception), within max_retries + 1 runs of the
\* generation node; from then on no node runs and the state is not written.
C22_JobTerminates ==
    /\ <>Terminal
    /\ [](Terminal => []Terminal)
    /\ [](creatorRuns <= state["max_retries"] + 1)
    /\ [][Terminal => UNCHANGED <<state, pc, genCalls, creatorRuns, validatorRuns,
                                  validatedRuns, notices, attemptPrompt>>]_vars

\* the longest job: max_retries = 3, four failed validations, then rendered
C22_Witness ==
    /\ Terminal
    /\ state["max_retries"] = MaxRetries
    /\ creatorRuns = MaxRetries + 1
    /\ validatorRuns = MaxRetries + 1
    /\ ui.shown = "final_state"

\* the output of the model went through fix_common_errors
OutputFixed == fmt.from_content /\ fmt.stage \in {"content", "feedback", "formatted"}

\* every value of `fixed` is the value of `output`, but for the items of
\* instagram.hashtags that do not start with '#', which get one in front
OnlyHashtagsPrefixed(output, fixed) ==
    /\ DOMAIN fixed = DOMAIN output
    /\ \A plat \in DOMAIN output :
          /\ DOMAIN fixed[plat] = DOMAIN output[plat]
          /\ \A f \in DOMAIN output[plat] :
                IF plat = "instagram" /\ f = "hashtags"
                THEN /\ Len(fixed[plat][f]) = Len(output[plat][f])
                     /\ \A i \in 1..Len(output[plat][f]) :
                           fixed[plat][f][i] =
                              IF startswith_hash(output[plat][f][i])
                              THEN output[plat][f][i]
                              ELSE <<"#">> \o output[plat][f][i]
                ELSE fixed[plat][f] = output[plat][f]

\* C23: in draft B the content that is validated is fix_common_errors of the
\* model's output: the output with '#' put in front of the Instagram hashtags
\* that lack it, order and length kept, every other field (the Pinterest
\* keywords too) as it was; fixing it again changes nothing; the feedback of
\* its validation never holds a "Missing '#'" issue, and an output with no
\* other fault passes (no retry).
C23_FixCommonErrorsNormalises ==
    OutputFixed =>
        /\ OnlyHashtagsPrefixed(fmt.output, fmt.content)
        /\ fix_common_errors(fmt.content) = fmt.content
        /\ fmt.stage \in {"feedback", "formatted"} =>
              /\ ~Contains(fmt.feedback, "Instagram Hashtags: Missing '#' on: ")
              /\ (/\ AllFieldsPresent(fmt.output)
                  /\ ViolatedConstraints(fmt.output)
                        \subseteq {"Instagram Hashtags: Missing '#' on: "})
                    => fmt.feedback = VALIDATION_PASSED

\* an output whose only fault is a hashtag without '#', and a Pinterest keyword
\* list left alone: fixed, then passed
C23_Witness ==
    /\ OutputFixed
    /\ fmt.stage = "feedback"
    /\ HasField(fmt.output, "instagram", "hashtags")
    /\ \E i \in 1..Len(fmt.output["instagram"]["hashtags"]) :
          ~startswith_hash(fmt.output["instagram"]["hashtags"][i])
    /\ fmt.content # fmt.output
    /\ fmt.feedback = VALIDATION_PASSED

\* the generation call of a retry attempt (attempt k > 0) raised
HardFailOnRetry == lastGen = "failed" /\ genCalls >= 2

\* C24 (as claimed): after a hard failure on a retry attempt the handler renders
\* the content of the attempt before it together with the error.
C24_OldContentRenderedWithError ==
    (HardFailOnRetry /\ ui.shown = "final_state") => (ui.content /\ ui.error_history)

\* C24 (amended): when the generation call of a retry attempt raises, the node
\* writes error_history and no other key, so social_content stays the output of
\* the attempt before it; the validator node runs once more on that content
\* (same feedback) and the graph ends; the final state holds the errors and that
\* content, and the handler shows the errors, with the content when it is not
\* an empty object.
C24_HardFailOnRetryKeepsOldContent ==
    /\ [][ (genCalls' # genCalls /\ lastGen' = "failed" /\ genCalls >= 1) =>
              /\ "social_content" \in DOMAIN state
              /\ state["social_content"] = lastContent
              /\ DOMAIN state' = DOMAIN state \cup {"error_history"}
              /\ \A key \in DOMAIN state \ {"error_history"} : state'[key] = state[key]
              /\ HasErrors(state')
              /\ pc' = "validator" ]_vars
    /\ [][ (HardFailOnRetry /\ pc = "validator") =>
              /\ validatorRuns' = validatorRuns + 1
              /\ validatedRuns' = validatedRuns + (IF NoContent(state) THEN 0 ELSE 1)
              /\ state'["social_content"] = state["social_content"]
              /\ feedback_of(state') = feedback_of(state)
              /\ ValidationFailed(state')
              /\ pc' = "END" ]_vars
    /\ []((HardFailOnRetry /\ ui.shown = "final_state") =>
              /\ HasErrors(state)
              /\ "social_content" \in DOMAIN state
              /\ ui.error_history
              /\ ui.content <=> ~NoContent(state))

\* the second attempt raised: the first content, validated twice, is rendered
\* with the error
C24_Witness ==
    /\ HardFailOnRetry
    /\ genCalls = 2
    /\ validatorRuns = 2
    /\ validatedRuns = 2
    /\ ui.shown = "final_state"
    /\ ui.content
    /\ ui.error_history

\* the entries of the session's generated_content, none before the gate is passed
generated_content == Get(session, "generated_content", EMPTY_DICT)

\* the platforms whose generate_for_platform call of this Generate action returned
\* content that is not empty
ReturnedContent(r) == {c.platform : c \in {d \in CallsOf(r) : content_truthy(d)}}

\* the script run was started by an interaction that stopped a Generate loop
\* before it had called generate_for_platform for each selected platform
CutShort == run.trigger = "interrupt" /\ run.unfinished # <<>>

\* C25 (as claimed): when the user interacts while a generate_for_platform call
\* of a Generate action is under way, generated_content holds entries only for
\* platforms whose call and parse have completed, and a Generate action that did
\* not reach every selected platform is not rendered as results.
C25_UnfinishedGenerateNotSurfaced ==
    /\ run.phase = "generating" => DOMAIN generated_content = ReturnedContent(run)
    /\ CutShort => ~run.results_shown

\* C26: when a Generate action has completed, the keys of generated_content are
\* exactly the platforms of platforms_selected (as the click run built it) whose
\* call returned non-empty content; the action starts by emptying
\* generated_content, so no entry of an earlier generation is left; and
\* generated_content never holds a key that PLATFORM_CONFIG does not.
C26_KeysAreSelectedPlatformsWithContent ==
    /\ [](Generating /\ run.phase = "done" =>
            /\ DOMAIN generated_content = ReturnedContent(run)
            /\ ReturnedContent(run) \subseteq
                  {session["platforms_selected"][i] :
                      i \in 1..Len(session["platforms_selected"])}
            /\ \A k \in DOMAIN generated_content :
                  \E call \in CallsOf(run) :
                      /\ call.platform = k
                      /\ generated_content[k] = call.value)
    /\ [][run.phase # "generating" /\ run'.phase = "generating"
            => /\ run'.calls = <<>>
               /\ session'["generated_content"] = EMPTY_DICT]_vars
    /\ [](DOMAIN generated_content \subseteq DOMAIN PLATFORM_CONFIG)

\* a Generate action has completed with Facebook's content alone, where the
\* results of an earlier generation held Instagram's
C26_Witness ==
    /\ Generating
    /\ run.phase = "done"
    /\ "instagram" \in run.had
    /\ DOMAIN generated_content = {"facebook"}

\* C27 (as claimed): whenever the results section is rendered, the list of tabs
\* is not empty, st.tabs is given at least one label, and every tab is of a
\* platform that generated_content holds.
C27_TabsNeverEmpty ==
    run.results_shown =>
        /\ run.tabs # <<>>
        /\ run.exception = "none"
        /\ \A i \in 1..Len(run.tabs) : run.tabs[i] \in DOMAIN generated_content

\* C28 (as claimed): every entry of generated_content was generated from the
\* image that the session's image_base64 holds now.
C28_ResultsOfTheCurrentImage ==
    \A k \in DOMAIN generated_content :
        /\ k \in DOMAIN generated_from
        /\ generated_from[k] = session["image_base64"]

\* C29: within a Generate action, a generate_for_platform call that fails (in the
\* model call or in the parse) leaves generated_content as it was and the call
\* that stores content leaves the entries of the other platforms as they were;
\* either way the loop goes on with the platforms after it, so that a completed
\* Generate action has called generate_for_platform for every selected platform.
C29_PlatformsIndependent ==
    /\ [][run'.calls # run.calls /\ run'.calls # <<>>
            => LET call == run'.calls[Len(run'.calls)]
               IN  /\ run'.phase = "generating"
                   /\ run'.todo = Tail(run.todo)
                   /\ ~call.stored =>
                         session'["generated_content"] = session["generated_content"]
                   /\ \A k \in DOMAIN session["generated_content"] \ {call.platform} :
                         /\ k \in DOMAIN session'["generated_content"]
                         /\ session'["generated_content"][k]
                               = session["generated_content"][k]]_vars
    /\ [](Generating /\ run.phase = "done" =>
            [i \in 1..Len(run.calls) |-> run.calls[i].platform]
                = session["platforms_selected"])

\* a completed Generate action whose first call stored Instagram's content and
\* whose second call failed in the model call or in the parse: Instagram's
\* entry is still the one stored
C29_Witness ==
    /\ Generating
    /\ run.phase = "done"
    /\ Len(run.calls) = 2
    /\ run.calls[1].stored
    /\ run.calls[2].model_calls = 1
    /\ run.calls[2].reported
    /\ DOMAIN generated_content = {run.calls[1].platform}
    /\ generated_content[run.calls[1].platform] = run.calls[1].value

====
